---------------------------- MODULE Spec2Model ----------------------------
(***************************************************************************)
(* A model of src/app.py, the OCRmyPDF web portal: the translation of the  *)
(* form's options into a command line, the batch run of `ocrmypdf` over    *)
(* the uploaded documents, the packaging of the results into a ZIP         *)
(* archive, and the extraction of page images.                             *)
(*                                                                         *)
(* Text is modelled as a TLA+ string where only its identity matters (a    *)
(* command-line token) and as a sequence of characters or chunks where the *)
(* code looks inside it (a file name, whose stem is taken).  Bytes are     *)
(* sequences of numbers 0..255.                                            *)
(***************************************************************************)
EXTENDS Integers, Sequences, FiniteSets, TLC

VARIABLES
    (* ---- the "ocr" form: options and the command line built from them *)
    cli_pc,             \* position in the construction of the command
    options,            \* the OcrOptions of the submission
    cli_parameters,     \* value returned by options.get_cli_parameters()
    cli_files,          \* the names of the input and the output temporary file
    cmd,                \* the argument vector handed to subprocess.run
    (* ---- ocr_multi_pdf / ocr_single_pdf *)
    pc,                 \* position in ocr_multi_pdf and ocr_single_pdf
    uploaded_files,     \* the batch: the uploads' names, in submission order
    batch_options,      \* the OcrOptions of the batch
    idx,                \* position of the for loop of ocr_multi_pdf (1-based)
    temp_files,         \* the temporary files that exist on disk
    run_cmd,            \* the command of the current invocation
    child,              \* the CompletedProcess and what the child did to the output file
    result,             \* the OcrResult of the current document
    returned,           \* the OcrResults ocr_single_pdf has returned, in call order
    successful,         \* ocr_multi_pdf's list of the same name
    failed,             \* ocr_multi_pdf's list of the same name
    ui,                 \* what was shown through st.error / st.code, in order
    exc,                \* the exception that left ocr_multi_pdf, or "none"
    with_files,         \* the files the with statement of ocr_single_pdf holds: input, output
    (* ---- create_ocr_zip_buffer *)
    zip_pc,             \* position in create_ocr_zip_buffer and in the reader
    ocr_results,        \* the argument of create_ocr_zip_buffer
    zip_next,           \* position of its for loop (1-based)
    filelist,           \* ZipFile.filelist: one ZipInfo (with its data) per member written
    NameToInfo,         \* ZipFile.NameToInfo: name -> index of the member in filelist
    buffer,             \* the finished archive: its central directory, or NoArchive
    entries,            \* what a reader of the archive lists, in order
    (* ---- extract_images_from_multi_pdf / create_images_zip_buffer *)
    img_pc,             \* position in the extraction and the packaging
    img_files,          \* the batch: the uploads' names, in submission order
    image_format,       \* "JPEG" or "PNG"
    img_idx,            \* position of the for loop of the extraction (1-based)
    attempts,           \* per document attempted, in order: its pages or a failure
    results,            \* the dict returned by the extraction, as ordered <<key, value>> pairs
    item,               \* position in extraction.items() (1-based)
    page,               \* position in enumerate(images) (0-based)
    temp_dir,           \* the files of the temporary directory: path -> content
    file_paths,         \* create_images_zip_buffer's list of the same name
    zipped,             \* position in file_paths of the second loop (1-based)
    img_entries,        \* the members of the image archive, in order
    img_errors          \* the st.error messages of the extraction, in order

cliVars == <<cli_pc, options, cli_files, cli_parameters, cmd>>
ocrVars == <<pc, uploaded_files, batch_options, idx, temp_files, run_cmd, child,
             result, returned, successful, failed, ui, exc, with_files>>
zipVars == <<zip_pc, ocr_results, zip_next, filelist, NameToInfo, buffer, entries>>
imgVars == <<img_pc, img_files, image_format, img_idx, attempts, results, item,
             page, temp_dir, file_paths, zipped, img_entries, img_errors>>
vars == <<cliVars, ocrVars, zipVars, imgVars>>

-----------------------------------------------------------------------------
(* Bounds of the model. *)

MaxDocs == 3        \* documents in an OCR batch
MaxResults == 3     \* OcrResults handed to create_ocr_zip_buffer
MaxImgDocs == 2     \* documents in an extraction batch
MaxPages == 2       \* pages of a document

-----------------------------------------------------------------------------
(* Helpers on sequences. *)

Range(s) == {s[i] : i \in 1..Len(s)}

SeqsUpTo(S, n) == UNION {[1..k -> S] : k \in 0..n}

RECURSIVE Filter(_, _)
(* The members of s that are in the set keep, in order. *)
Filter(s, keep) ==
    IF s = <<>> THEN <<>>
    ELSE (IF Head(s) \in keep THEN <<Head(s)>> ELSE <<>>) \o Filter(Tail(s), keep)

(* The largest index of s holding c, 0 when there is none: str.rfind + 1. *)
LastIndexOf(s, c) ==
    LET hits == {i \in 1..Len(s) : s[i] = c}
    IN IF hits = {} THEN 0 ELSE CHOOSE i \in hits : \A j \in hits : j <= i

(* The smallest index of s holding c, 0 when there is none: str.find + 1. *)
FirstIndexOf(s, c) ==
    LET hits == {i \in 1..Len(s) : s[i] = c}
    IN IF hits = {} THEN 0 ELSE CHOOSE i \in hits : \A j \in hits : i <= j

RECURSIVE Digits(_)
(* The decimal digits of n >= 0. *)
Digits(n) ==
    LET digit == <<"0", "1", "2", "3", "4", "5", "6", "7", "8", "9">>[(n % 10) + 1]
    IN IF n < 10 THEN digit ELSE Digits(n \div 10) \o digit

(* str(n) for an int n. *)
str(n) == IF n < 0 THEN "-" \o Digits(-n) ELSE Digits(n)

-----------------------------------------------------------------------------
(* OcrOptions and its command line (src/app.py 16-39, 59-63, 158-164). *)

CLEAN == "Clean up pages before OCR, but do not alter the final output"
CLEAN_FINAL == "Clean up pages before OCR and inserts the page into the final output"
NO_CLEAN == "Do not clean up"

MinOptimize == 0
MaxOptimize == 3

(* The values main() can construct: three checkboxes, a radio, a slider. *)
OcrOptions ==
    [rotate_pages : BOOLEAN, deskew : BOOLEAN,
     clean_option : {NO_CLEAN, CLEAN, CLEAN_FINAL},
     redo_ocr : BOOLEAN, optimize_n : MinOptimize..MaxOptimize]

(* The dict `flags` of get_cli_parameters, in insertion order. *)
flags(self) ==
    << <<"--rotate-pages", self.rotate_pages>>,
       <<"--deskew", self.deskew>>,
       <<"--clean", self.clean_option = CLEAN>>,
       <<"--clean-final", self.clean_option = CLEAN_FINAL>>,
       <<"--redo-ocr", self.redo_ocr>> >>

RECURSIVE EnabledFlags(_)
(* [flag for flag, enabled in flags.items() if enabled] *)
EnabledFlags(items) ==
    IF items = <<>> THEN <<>>
    ELSE (IF Head(items)[2] THEN <<Head(items)[1]>> ELSE <<>>)
         \o EnabledFlags(Tail(items))

(* A slip the code could have made: `if self.optimize_n:` around the two appends. *)
get_cli_parameters_skip_zero(self) ==
    EnabledFlags(flags(self))
    \o (IF self.optimize_n = 0 THEN <<>> ELSE <<"--optimize", str(self.optimize_n)>>)

get_cli_parameters(self) ==
    Append(Append(EnabledFlags(flags(self)), "--optimize"), str(self.optimize_n))

(* list(chain(["ocrmypdf"], options.get_cli_parameters(), [input, output])) *)
BuildCmd(params, input_name, output_name) ==
    <<"ocrmypdf">> \o params \o <<input_name, output_name>>


(* The names tempfile.NamedTemporaryFile(suffix=".pdf") can give a new file. *)
TempNames == {"/tmp/tmp_a.pdf", "/tmp/tmp_b.pdf"}

NoCmd == <<>>

(* The form as main() first shows it: nothing ticked, the slider at 1. *)
DefaultOptions ==
    [rotate_pages |-> FALSE, deskew |-> FALSE, clean_option |-> NO_CLEAN,
     redo_ocr |-> FALSE, optimize_n |-> 1]

CliIdle ==
    /\ cli_pc = "idle"
    /\ options = DefaultOptions
    /\ cli_files = <<>>
    /\ cli_parameters = <<>>
    /\ cmd = NoCmd

(* main(): the form is submitted with any selection of the widgets; the two
   temporary files of the invocation have any two distinct names. *)
CliInit ==
    /\ cli_pc = "form"
    /\ options \in OcrOptions
    /\ cli_files \in {f \in [1..2 -> TempNames] : f[1] # f[2]}
    /\ cli_parameters = <<>>
    /\ cmd = NoCmd

(* options.get_cli_parameters(), line 61. *)
GetCliParameters ==
    /\ cli_pc = "form"
    /\ cli_parameters' = get_cli_parameters(options)
    /\ cli_pc' = "parameters"
    /\ UNCHANGED <<options, cli_files, cmd>>
    /\ UNCHANGED <<ocrVars, zipVars, imgVars>>

(* The chain of lines 59-63. *)
ChainCmd ==
    /\ cli_pc = "parameters"
    /\ cmd' = BuildCmd(cli_parameters, cli_files[1], cli_files[2])
    /\ cli_pc' = "command"
    /\ UNCHANGED <<options, cli_files, cli_parameters>>
    /\ UNCHANGED <<ocrVars, zipVars, imgVars>>

-----------------------------------------------------------------------------
(* bytes.decode(): strict UTF-8 (src/app.py 66).  A str is the sequence of  *)
(* its code points.                                                         *)

IsContinuation(b) == b \in 128..191

RECURSIVE utf8_decode(_)
(* [ok, text]: the code points of the bytes, or ok = FALSE where CPython raises
   UnicodeDecodeError (an invalid start byte, a truncated or invalid
   continuation, an overlong form, a surrogate, a code point past U+10FFFF). *)
utf8_decode(b) ==
    IF b = <<>> THEN [ok |-> TRUE, text |-> <<>>]
    ELSE
      LET b1 == b[1]
          n == IF b1 < 128 THEN 1
               ELSE IF b1 \in 194..223 THEN 2
               ELSE IF b1 \in 224..239 THEN 3
               ELSE IF b1 \in 240..244 THEN 4
               ELSE 0
          wellFormed == /\ n > 0
                        /\ Len(b) >= n
                        /\ \A i \in 2..n : IsContinuation(b[i])
          cp == IF n = 1 THEN b1
                ELSE IF n = 2 THEN (b1 - 192) * 64 + (b[2] - 128)
                ELSE IF n = 3 THEN (b1 - 224) * 4096 + (b[2] - 128) * 64 + (b[3] - 128)
                ELSE (b1 - 240) * 262144 + (b[2] - 128) * 4096
                     + (b[3] - 128) * 64 + (b[4] - 128)
          valid == /\ wellFormed
                   /\ n = 3 => (cp >= 2048 /\ cp \notin 55296..57343)
                   /\ n = 4 => cp \in 65536..1114111
      IN IF ~valid THEN [ok |-> FALSE, text |-> <<>>]
         ELSE LET rest == utf8_decode(SubSeq(b, n + 1, Len(b)))
              IN [ok |-> rest.ok, text |-> IF rest.ok THEN <<cp>> \o rest.text ELSE <<>>]

(* str.decode: a str has no such attribute, the lookup raises AttributeError
   (src/app.py 83 applies it to OcrResult.stdout and OcrResult.stderr, both str). *)
str_decode(text) == [ok |-> FALSE, text |-> <<>>, error |-> "AttributeError"]

-----------------------------------------------------------------------------
(* ocr_single_pdf and ocr_multi_pdf (src/app.py 42-85). *)

(* UploadedFile.name of the uploads of the model. *)
UploadNames == {<<"a", ".", "pdf">>, <<"b", ".", "pdf">>}

(* The batch's options: the spec's scenario, and every flag with level 0. *)
BatchOptions ==
    {[rotate_pages |-> TRUE, deskew |-> FALSE, clean_option |-> NO_CLEAN,
      redo_ocr |-> FALSE, optimize_n |-> 2],
     [rotate_pages |-> TRUE, deskew |-> TRUE, clean_option |-> CLEAN_FINAL,
      redo_ocr |-> TRUE, optimize_n |-> 0]}

(* What the external tool may do: its exit code (negative: killed by a signal),
   the bytes on its standard output and standard error, and what it does to
   the output path: nothing, write bytes into the file, or put a new file in
   its place (the handle ocr_single_pdf holds then still reads the old one). *)
ExitCodes == {0, 1, -9}
StdoutBytes == {<<79, 75>>, <<255>>}                 \* "OK", an invalid start byte
StderrBytes ==                                       \* "", U+00E9 U+20AC, a truncated U+00E9
    {<<>>, <<195, 169, 226, 130, 172>>, <<195>>}
OutputEffects == {"nothing", "in_place", "replaced"}
PdfBytes == <<37, 80, 68, 70>>                       \* "%PDF"

NoChild == [spawned |-> FALSE]
NoResult == [made |-> FALSE]

ChildOutcomes ==
    [spawned : {TRUE}, returncode : ExitCodes, stdout : StdoutBytes,
     stderr : StderrBytes, effect : OutputEffects, data : {PdfBytes}]

(* The with statement is left: both NamedTemporaryFile objects are closed, and
   closing deletes the file of that name (delete=True is the default). *)
release_keep_output(files, held) ==
    files \ (IF held = <<>> THEN {} ELSE {held[1]})

release(files, held) == files \ Range(held)

(* A slip the code could have made: the output read only after a success. *)
read_output_on_success(c) ==
    IF c.returncode = 0 /\ c.effect = "in_place" THEN c.data ELSE <<>>

(* output_file.seek(0); output_file.read(): the bytes of the file the handle
   was opened on. *)
read_output(c) == IF c.effect = "in_place" THEN c.data ELSE <<>>

OcrResult(file_name, return_code, stdout, stderr, output_file_content) ==
    [made |-> TRUE, file_name |-> file_name, return_code |-> return_code,
     stdout |-> stdout, stderr |-> stderr,
     output_file_content |-> output_file_content]

Lit(s) == [lit |-> s]

(* st.spinner(f"Processing {file_path}...") *)
Spinner(file_path) ==
    [widget |-> "spinner",
     parts |-> <<Lit("Processing "), [name |-> file_path], Lit("...")>>]

(* st.error(f"OCRmyPDF failed to process {file_path} with error code {return_code}") *)
ErrorMessage(file_path, return_code) ==
    [widget |-> "error",
     parts |-> <<Lit("OCRmyPDF failed to process "), [name |-> file_path],
                 Lit(" with error code "), Lit(str(return_code))>>]

(* st.code(f"stdout:\n{out}\nstderr:\n{err}", language="text") *)
CodeBlock(out, err) ==
    [widget |-> "code",
     parts |-> <<Lit("stdout:\n"), [text |-> out], Lit("\nstderr:\n"), [text |-> err]>>]

OcrIdle ==
    /\ pc = "idle"
    /\ uploaded_files = <<>>
    /\ batch_options = DefaultOptions
    /\ idx = 1
    /\ temp_files = {}
    /\ with_files = <<>>
    /\ run_cmd = NoCmd
    /\ child = NoChild
    /\ result = NoResult
    /\ returned = <<>>
    /\ successful = <<>>
    /\ failed = <<>>
    /\ ui = <<>>
    /\ exc = "none"

(* ocr_multi_pdf is entered (lines 73-74) with any batch of uploads. *)
OcrInit ==
    /\ pc = "loop"
    /\ uploaded_files \in SeqsUpTo(UploadNames, MaxDocs)
    /\ batch_options \in BatchOptions
    /\ idx = 1
    /\ temp_files = {}
    /\ with_files = <<>>
    /\ run_cmd = NoCmd
    /\ child = NoChild
    /\ result = NoResult
    /\ returned = <<>>
    /\ successful = <<>>
    /\ failed = <<>>
    /\ ui = <<>>
    /\ exc = "none"

OnlyOcr == UNCHANGED <<cliVars, zipVars, imgVars>>

(* An exception leaves ocr_single_pdf and, uncaught, ocr_multi_pdf: the with
   statement releases what it holds on the way out. *)
Raise(e) ==
    /\ pc' = "raised"
    /\ exc' = e
    /\ temp_files' = release(temp_files, with_files)
    /\ with_files' = <<>>

(* Lines 75-78: the next upload, its spinner, the call of ocr_single_pdf. *)
NextFile ==
    /\ pc = "loop"
    /\ idx <= Len(uploaded_files)
    /\ ui' = Append(ui, Spinner(uploaded_files[idx]))
    /\ pc' = "single"
    /\ child' = NoChild
    /\ result' = NoResult
    /\ run_cmd' = NoCmd
    /\ UNCHANGED <<uploaded_files, batch_options, idx, temp_files, with_files,
                   returned, successful, failed, exc>>
    /\ OnlyOcr

(* Line 85: the loop is exhausted. *)
ReturnBatch ==
    /\ pc = "loop"
    /\ idx > Len(uploaded_files)
    /\ pc' = "returned"
    /\ UNCHANGED <<uploaded_files, batch_options, idx, temp_files, with_files, run_cmd,
                   child, result, returned, successful, failed, ui, exc>>
    /\ OnlyOcr

(* Line 55: the input file is created under a name no file has, or the
   creation fails (no space, no permission). *)
OpenInput ==
    /\ pc = "single"
    /\ \/ \E n \in TempNames \ temp_files :
             /\ temp_files' = temp_files \cup {n}
             /\ with_files' = <<n>>
             /\ pc' = "input_open"
             /\ exc' = exc
       \/ Raise("OSError")
    /\ UNCHANGED <<uploaded_files, batch_options, idx, run_cmd, child, result,
                   returned, successful, failed, ui>>
    /\ OnlyOcr

(* Line 56: the output file likewise; on failure the input file is released. *)
OpenOutput ==
    /\ pc = "input_open"
    /\ \/ \E n \in TempNames \ temp_files :
             /\ temp_files' = temp_files \cup {n}
             /\ with_files' = Append(with_files, n)
             /\ pc' = "output_open"
             /\ exc' = exc
       \/ Raise("OSError")
    /\ UNCHANGED <<uploaded_files, batch_options, idx, run_cmd, child, result,
                   returned, successful, failed, ui>>
    /\ OnlyOcr

(* Lines 57-58: the upload is written to the input file and flushed. *)
WriteInput ==
    /\ pc = "output_open"
    /\ \/ /\ pc' = "written"
          /\ UNCHANGED <<temp_files, with_files, exc>>
       \/ Raise("OSError")
    /\ UNCHANGED <<uploaded_files, batch_options, idx, run_cmd, child, result,
                   returned, successful, failed, ui>>
    /\ OnlyOcr

(* Lines 59-64: the command is built and run to its end; or the tool cannot
   be started (it is not on the path). *)
RunChild ==
    /\ pc = "written"
    /\ run_cmd' = BuildCmd(get_cli_parameters(batch_options), with_files[1], with_files[2])
    /\ \/ /\ child' \in ChildOutcomes
          /\ pc' = "exited"
          /\ UNCHANGED <<temp_files, with_files, exc>>
       \/ /\ child' = child
          /\ Raise("FileNotFoundError")
    /\ UNCHANGED <<uploaded_files, batch_options, idx, result, returned, successful,
                   failed, ui>>
    /\ OnlyOcr

(* Lines 65-66: the streams are decoded, the output file is read, the
   OcrResult is made, the with statement is left and the result returned; a
   stream that is not UTF-8 raises, and so does a read the storage refuses. *)
ReadBack ==
    /\ pc = "exited"
    /\ LET out == utf8_decode(child.stdout)
           err == utf8_decode(child.stderr)
       IN \/ IF out.ok /\ err.ok
             THEN /\ result' = OcrResult(uploaded_files[idx], child.returncode, out.text,
                                         err.text, read_output(child))
                  /\ returned' = Append(returned, result')
                  /\ temp_files' = release(temp_files, with_files)
                  /\ with_files' = <<>>
                  /\ pc' = "classify"
                  /\ exc' = exc
             ELSE /\ Raise("UnicodeDecodeError")
                  /\ UNCHANGED <<result, returned>>
          \/ /\ out.ok /\ err.ok
             /\ Raise("OSError")
             /\ UNCHANGED <<result, returned>>
    /\ UNCHANGED <<uploaded_files, batch_options, idx, run_cmd, child, successful,
                   failed, ui>>
    /\ OnlyOcr

(* Lines 79-80. *)
ClassifySuccess ==
    /\ pc = "classify"
    /\ result.return_code = 0
    /\ successful' = Append(successful, result)
    /\ idx' = idx + 1
    /\ pc' = "loop"
    /\ UNCHANGED <<uploaded_files, batch_options, temp_files, with_files, run_cmd,
                   child, result, returned, failed, ui, exc>>
    /\ OnlyOcr

(* Lines 81-84: st.error, then the argument of st.code is evaluated, and only
   if that succeeds is the code block shown and the result appended. *)
ClassifyFailure ==
    /\ pc = "classify"
    /\ result.return_code # 0
    /\ LET shown == Append(ui, ErrorMessage(uploaded_files[idx], result.return_code))
           out == str_decode(result.stdout)
           err == str_decode(result.stderr)
       IN IF out.ok /\ err.ok
          THEN /\ ui' = Append(shown, CodeBlock(out.text, err.text))
               /\ failed' = Append(failed, result)
               /\ idx' = idx + 1
               /\ pc' = "loop"
               /\ exc' = exc
          ELSE /\ ui' = shown
               /\ pc' = "raised"
               /\ exc' = out.error
               /\ UNCHANGED <<failed, idx>>
    /\ UNCHANGED <<uploaded_files, batch_options, temp_files, with_files, run_cmd,
                   child, result, returned, successful>>
    /\ OnlyOcr

-----------------------------------------------------------------------------
(* create_ocr_zip_buffer (src/app.py 88-98) and zipfile.ZipFile as it uses it. *)

Nul == "<NUL>"

(* ZipInfo.__init__: the name is cut at its first null character (os.sep is
   "/" here, so no separator is rewritten). *)
ZipInfoFilename(name) ==
    LET i == FirstIndexOf(name, Nul)
    IN IF i > 0 THEN SubSeq(name, 1, i - 1) ELSE name

Member(name, data) == [filename |-> ZipInfoFilename(name), data |-> data]

(* A slip the code could have made: an archive kept as a mapping from names,
   where writing a name again replaces the member. *)
writestr_replacing(members, name, data) ==
    LET m == Member(name, data)
        same == {i \in 1..Len(members) : members[i].filename = m.filename}
    IN IF same = {} THEN Append(members, m)
       ELSE [i \in 1..Len(members) |-> IF i \in same THEN m ELSE members[i]]

(* ZipFile.writestr: a new member is appended; a name already present only
   draws a warning (ZipFile._writecheck). *)
writestr(members, name, data) == Append(members, Member(name, data))

(* NameToInfo[zinfo.filename] = zinfo *)
dict_put(d, key, value) ==
    [k \in DOMAIN d \cup {key} |-> IF k = key THEN value ELSE d[k]]

NoArchive == [closed |-> FALSE]

(* The results that may be handed over: names may repeat, content may be empty. *)
ZipContents == {<<>>, PdfBytes, <<37, 80, 68, 70, 10>>}
ZipInputs ==
    {OcrResult(n, 0, <<79, 75>>, <<>>, c) : n \in UploadNames, c \in ZipContents}

ZipIdle ==
    /\ zip_pc = "idle"
    /\ ocr_results = <<>>
    /\ zip_next = 1
    /\ filelist = <<>>
    /\ NameToInfo = <<>>
    /\ buffer = NoArchive
    /\ entries = <<>>

(* Lines 92-94: an empty archive is opened on a new buffer. *)
ZipInit ==
    /\ zip_pc = "writing"
    /\ ocr_results \in SeqsUpTo(ZipInputs, MaxResults)
    /\ zip_next = 1
    /\ filelist = <<>>
    /\ NameToInfo = <<>>
    /\ buffer = NoArchive
    /\ entries = <<>>

OnlyZip == UNCHANGED <<cliVars, ocrVars, imgVars>>

(* Lines 95-96: one writestr per result. *)
WriteStr ==
    /\ zip_pc = "writing"
    /\ zip_next <= Len(ocr_results)
    /\ LET r == ocr_results[zip_next]
       IN /\ filelist' = writestr(filelist, r.file_name, r.output_file_content)
          /\ NameToInfo' = dict_put(NameToInfo, ZipInfoFilename(r.file_name), Len(filelist'))
    /\ zip_next' = zip_next + 1
    /\ UNCHANGED <<zip_pc, ocr_results, buffer, entries>>
    /\ OnlyZip

(* Lines 94, 97-98: leaving the with statement closes the archive, which
   writes the central directory, one record per member of filelist; the
   buffer is rewound and returned. *)
CloseZip ==
    /\ zip_pc = "writing"
    /\ zip_next > Len(ocr_results)
    /\ buffer' = [closed |-> TRUE, central_directory |-> filelist]
    /\ zip_pc' = "returned"
    /\ UNCHANGED <<ocr_results, zip_next, filelist, NameToInfo, entries>>
    /\ OnlyZip

(* A reader opens the returned buffer and lists its members with their bytes
   (ZipFile(buffer).infolist(), and open() on each). *)
ReadArchive ==
    /\ zip_pc = "returned"
    /\ entries' = [i \in 1..Len(buffer.central_directory) |->
                      <<buffer.central_directory[i].filename,
                        buffer.central_directory[i].data>>]
    /\ zip_pc' = "read"
    /\ UNCHANGED <<ocr_results, zip_next, filelist, NameToInfo, buffer>>
    /\ OnlyZip

-----------------------------------------------------------------------------
(* extract_images_from_multi_pdf, save_image_file, create_images_zip_buffer
   (src/app.py 101-147). *)

ImgNames == {<<"a", ".", "pdf">>, <<"a", ".", "PDF">>, <<"b", ".", "pdf">>}
ImageFormats == {"JPEG", "PNG"}
DefaultQuality == 95

(* str.lower() on the values of the selectbox. *)
lower(s) == CASE s = "JPEG" -> "jpeg" [] s = "PNG" -> "png" [] OTHER -> s

(* Path(file_name).stem: the final component, without its last suffix; a dot
   that starts or ends the component starts no suffix. *)
stem(file_name) ==
    LET name == SubSeq(file_name, LastIndexOf(file_name, "/") + 1, Len(file_name))
        i == LastIndexOf(name, ".")
    IN IF 1 < i /\ i < Len(name) THEN SubSeq(name, 1, i - 1) ELSE name

(* The i-th page of the d-th upload, as convert_from_bytes renders it. *)
PageImage(d, i) == [doc |-> d, page |-> i]

(* results[filename] = value on a dict kept as ordered <<key, value>> pairs: a
   key already present keeps its place and takes the new value. *)
dict_set(d, key, value) ==
    IF \E i \in 1..Len(d) : d[i][1] = key
    THEN [i \in 1..Len(d) |-> IF d[i][1] = key THEN <<key, value>> ELSE d[i]]
    ELSE Append(d, <<key, value>>)

(* dir_path / f"{source_file_name}.page_{page_number}.{image_format.lower()}",
   without the directory, which all the files share. *)
ImagePath(source_file_name, page_number, format) ==
    source_file_name \o <<".page_", str(page_number), ".", lower(format)>>

(* image.save(file_path, 'JPEG', quality=quality) / image.save(file_path, 'PNG') *)
Encoded(image, format, quality) ==
    IF lower(format) = "jpeg"
    THEN [image |-> image, codec |-> "JPEG", quality |-> quality]
    ELSE [image |-> image, codec |-> "PNG"]

ImgIdle ==
    /\ img_pc = "idle"
    /\ img_files = <<>>
    /\ image_format = "JPEG"
    /\ img_idx = 1
    /\ attempts = <<>>
    /\ results = <<>>
    /\ item = 1
    /\ page = 0
    /\ temp_dir = <<>>
    /\ file_paths = <<>>
    /\ zipped = 1
    /\ img_entries = <<>>
    /\ img_errors = <<>>

(* The "extract" form is submitted (lines 166-175, 120). *)
ImgInit ==
    /\ img_pc = "extract"
    /\ img_files \in SeqsUpTo(ImgNames, MaxImgDocs)
    /\ image_format \in ImageFormats
    /\ img_idx = 1
    /\ attempts = <<>>
    /\ results = <<>>
    /\ item = 1
    /\ page = 0
    /\ temp_dir = <<>>
    /\ file_paths = <<>>
    /\ zipped = 1
    /\ img_entries = <<>>
    /\ img_errors = <<>>

OnlyImg == UNCHANGED <<cliVars, ocrVars, zipVars>>

(* Lines 121-128: the next upload is rasterized into its pages, or the
   rasterization raises, which is caught and reported. *)
Extract ==
    /\ img_pc = "extract"
    /\ img_idx <= Len(img_files)
    /\ \/ \E n \in 1..MaxPages :
             LET images == [i \in 1..n |-> PageImage(img_idx, i)]
             IN /\ results' = dict_set(results, img_files[img_idx], images)
                /\ attempts' = Append(attempts, [ok |-> TRUE, images |-> images])
                /\ img_errors' = img_errors
       \/ /\ attempts' = Append(attempts, [ok |-> FALSE, images |-> <<>>])
          /\ img_errors' = Append(img_errors, img_files[img_idx])
          /\ results' = results
    /\ img_idx' = img_idx + 1
    /\ UNCHANGED <<img_pc, img_files, image_format, item, page, temp_dir, file_paths,
                   zipped, img_entries>>
    /\ OnlyImg

(* Line 129, then lines 136-138: the dict is returned and handed to
   create_images_zip_buffer, which makes its temporary directory. *)
ExtractReturn ==
    /\ img_pc = "extract"
    /\ img_idx > Len(img_files)
    /\ img_pc' = IF results = <<>> THEN "zip" ELSE "save"
    /\ UNCHANGED <<img_files, image_format, img_idx, attempts, results, item, page,
                   temp_dir, file_paths, zipped, img_entries, img_errors>>
    /\ OnlyImg

(* Lines 139-141 with save_image_file (101-113): one page is saved and its
   path recorded; after the last page of an entry the next entry follows. *)
SaveImage ==
    /\ img_pc = "save"
    /\ LET file_name == results[item][1]
           images == results[item][2]
           file_path == ImagePath(stem(file_name), page + 1, image_format)
           last_page == page + 1 = Len(images)
       IN IF lower(image_format) \in {"jpeg", "png"}
          THEN /\ temp_dir' = dict_put(temp_dir, file_path,
                                       Encoded(images[page + 1], image_format, DefaultQuality))
               /\ file_paths' = Append(file_paths, file_path)
               /\ page' = IF last_page THEN 0 ELSE page + 1
               /\ item' = IF last_page THEN item + 1 ELSE item
               /\ img_pc' = IF last_page /\ item = Len(results) THEN "zip" ELSE "save"
          ELSE /\ img_pc' = "raised"          \* ValueError, line 112
               /\ temp_dir' = <<>>
               /\ UNCHANGED <<file_paths, page, item>>
    /\ UNCHANGED <<img_files, image_format, img_idx, attempts, results, zipped,
                   img_entries, img_errors>>
    /\ OnlyImg

(* Lines 143-145: each recorded path is read from the directory and written
   to the archive under its file name. *)
ZipWrite ==
    /\ img_pc = "zip"
    /\ zipped <= Len(file_paths)
    /\ img_entries' = writestr(img_entries, file_paths[zipped], temp_dir[file_paths[zipped]])
    /\ zipped' = zipped + 1
    /\ UNCHANGED <<img_pc, img_files, image_format, img_idx, attempts, results, item,
                   page, temp_dir, file_paths, img_errors>>
    /\ OnlyImg

(* Lines 137, 146-147: the archive is closed and returned, the temporary
   directory is removed. *)
ImgReturn ==
    /\ img_pc = "zip"
    /\ zipped > Len(file_paths)
    /\ temp_dir' = <<>>
    /\ img_pc' = "returned"
    /\ UNCHANGED <<img_files, image_format, img_idx, attempts, results, item, page,
                   file_paths, zipped, img_entries, img_errors>>
    /\ OnlyImg

-----------------------------------------------------------------------------
(* The specifications. *)

InitCli == CliInit /\ OcrIdle /\ ZipIdle /\ ImgIdle
NextCli == GetCliParameters \/ ChainCmd
SpecCli == InitCli /\ [][NextCli]_vars

InitOcr == CliIdle /\ OcrInit /\ ZipIdle /\ ImgIdle
NextOcr ==
    \/ NextFile
    \/ ReturnBatch
    \/ OpenInput
    \/ OpenOutput
    \/ WriteInput
    \/ RunChild
    \/ ReadBack
    \/ ClassifySuccess
    \/ ClassifyFailure
SpecOcr == InitOcr /\ [][NextOcr]_vars

InitZip == CliIdle /\ OcrIdle /\ ZipInit /\ ImgIdle
NextZip == WriteStr \/ CloseZip \/ ReadArchive
SpecZip == InitZip /\ [][NextZip]_vars

InitImg == CliIdle /\ OcrIdle /\ ZipIdle /\ ImgInit
NextImg == Extract \/ ExtractReturn \/ SaveImage \/ ZipWrite \/ ImgReturn
SpecImg == InitImg /\ [][NextImg]_vars

-----------------------------------------------------------------------------
(* Properties of ocr_multi_pdf and ocr_single_pdf, under SpecOcr. *)

(* ocr_multi_pdf has been left, by its return or by an exception. *)
BatchOver == pc \in {"returned", "raised"}

(* The exception, if any, came out of ocr_single_pdf: the temporary storage
   or the tool could not be used, or a stream could not be decoded. *)
SingleRaised == exc \in {"OSError", "FileNotFoundError", "UnicodeDecodeError"}

IsSuccess(r) == r.return_code = 0
IsFailure(r) == r.return_code # 0

(* str.encode(): the UTF-8 bytes of a sequence of code points. *)
RECURSIVE utf8_encode(_)
utf8_encode(text) ==
    IF text = <<>> THEN <<>>
    ELSE LET cp == Head(text)
             bytes ==
               IF cp < 128 THEN <<cp>>
               ELSE IF cp < 2048 THEN <<192 + (cp \div 64), 128 + (cp % 64)>>
               ELSE IF cp < 65536
                    THEN <<224 + (cp \div 4096), 128 + ((cp \div 64) % 64), 128 + (cp % 64)>>
               ELSE <<240 + (cp \div 262144), 128 + ((cp \div 4096) % 64),
                      128 + ((cp \div 64) % 64), 128 + (cp % 64)>>
         IN bytes \o utf8_encode(Tail(text))

(* C1: whatever the exit codes, once ocr_multi_pdf is over and no call of
   ocr_single_pdf raised, it has returned (not raised), and ocr_single_pdf
   was called on every document of the batch, in order: a document with a
   non-zero exit code does not stop the batch. *)
C1_BatchRunsToCompletion ==
    (BatchOver /\ ~SingleRaised) =>
        /\ pc = "returned"
        /\ Len(returned) = Len(uploaded_files)
        /\ \A i \in 1..Len(returned) : returned[i].file_name = uploaded_files[i]

(* C2: once ocr_multi_pdf is over and no call of ocr_single_pdf raised, the
   two lists are the stable partition of the results ocr_single_pdf returned:
   `successful` the results with return_code = 0 and `failed` those with
   return_code # 0, each in submission order and unmodified, every document
   in exactly one of them. *)
C2_StablePartition ==
    (BatchOver /\ ~SingleRaised) =>
        /\ successful = SelectSeq(returned, IsSuccess)
        /\ failed = SelectSeq(returned, IsFailure)
        /\ Len(successful) + Len(failed) = Len(uploaded_files)

(* C3: once the child was spawned and has exited, with any exit code, and
   ocr_single_pdf has been left (the storage having failed no read), it has
   returned an OcrResult (it did not raise) that carries the upload's name,
   the child's exit code and the child's complete standard output and
   standard error. *)
C3_ResultWheneverChildExits ==
    (child.spawned /\ pc \in {"classify", "raised"} /\ exc # "OSError") =>
        /\ result.made
        /\ result.file_name = uploaded_files[idx]
        /\ result.return_code = child.returncode
        /\ utf8_encode(result.stdout) = child.stdout
        /\ utf8_encode(result.stderr) = child.stderr

(* The diagnostic of result r is on the page: an error message with the
   document's name and its exit code, followed by a code block with the text
   of both streams. *)
HasDiagnostic(r) ==
    \E j \in 1..(Len(ui) - 1) :
        /\ ui[j].widget = "error"
        /\ [name |-> r.file_name] \in Range(ui[j].parts)
        /\ Lit(str(r.return_code)) \in Range(ui[j].parts)
        /\ ui[j + 1].widget = "code"
        /\ [text |-> r.stdout] \in Range(ui[j + 1].parts)
        /\ [text |-> r.stderr] \in Range(ui[j + 1].parts)

(* C4: every document whose invocation returned a non-zero exit code has,
   once ocr_multi_pdf has dealt with its result, a diagnostic on the page
   with its name, its exit code and the text of both captured streams, and
   showing it does nothing else: ocr_multi_pdf goes on. *)
C4_DiagnosticForEveryFailure ==
    pc # "classify" =>
        \A i \in 1..Len(returned) :
            IsFailure(returned[i]) => (HasDiagnostic(returned[i]) /\ exc # "AttributeError")

(* C6 as claimed: a result with a non-zero return code has empty
   output_file_content, whatever the tool did. *)
C6_FailedResultHasNoOutput ==
    \A i \in 1..Len(returned) :
        IsFailure(returned[i]) => returned[i].output_file_content = <<>>

(* C6 as amended: the OcrResult ocr_single_pdf returns holds exactly the
   bytes the output temporary file contains when the child has exited,
   whatever the return code: the bytes the tool wrote into that file, and
   none if it wrote nothing into it or put another file in its place. *)
C6_OutputIsFileContent ==
    pc = "classify" =>
        /\ child.effect = "in_place" => result.output_file_content = child.data
        /\ child.effect # "in_place" => result.output_file_content = <<>>

(* A failed result that carries output: the tool wrote and then exited non-zero. *)
C6_Witness ==
    /\ pc = "classify"
    /\ result.return_code # 0
    /\ result.output_file_content # <<>>

(* C7: outside the with statement of ocr_single_pdf (before a call, after
   its return, after any exception) no temporary file exists, so the files
   of one document are gone before the next document starts; inside it only
   the current call's files exist, at most one input and one output. *)
C7_TempFilesScoped ==
    /\ pc \in {"loop", "single", "classify", "returned", "raised"} => temp_files = {}
    /\ temp_files = Range(with_files)
    /\ Len(with_files) <= 2

(* The second document's call was left by an exception after the child ran. *)
C7_Witness ==
    /\ pc = "raised"
    /\ exc = "UnicodeDecodeError"
    /\ idx = 2
    /\ child.spawned
    /\ temp_files = {}

-----------------------------------------------------------------------------
(* Properties of the command line, under SpecCli. *)

FlagOrder == <<"--rotate-pages", "--deskew", "--clean", "--clean-final", "--redo-ocr">>

(* The flags whose option is enabled. *)
EnabledSet(o) ==
    {f \in Range(FlagOrder) :
        \/ f = "--rotate-pages" /\ o.rotate_pages
        \/ f = "--deskew" /\ o.deskew
        \/ f = "--clean" /\ o.clean_option = CLEAN
        \/ f = "--clean-final" /\ o.clean_option = CLEAN_FINAL
        \/ f = "--redo-ocr" /\ o.redo_ocr}

(* C5: the parameters are the enabled flags in the fixed order, then exactly
   one "--optimize" and the level as a string, for every level 0 to 3; never
   both --clean and --clean-final; and the command is "ocrmypdf", the
   parameters, the input path and the output path. *)
C5_CliParameters ==
    cli_pc \in {"parameters", "command"} =>
        LET r == cli_parameters
            n == Len(r)
        IN /\ n >= 2
           /\ SubSeq(r, 1, n - 2) = Filter(FlagOrder, EnabledSet(options))
           /\ r[n - 1] = "--optimize"
           /\ r[n] = <<"0", "1", "2", "3">>[options.optimize_n + 1]
           /\ Cardinality({i \in 1..n : r[i] = "--optimize"}) = 1
           /\ ~({"--clean", "--clean-final"} \subseteq Range(r))
           /\ (options = [rotate_pages |-> TRUE, deskew |-> FALSE,
                          clean_option |-> NO_CLEAN, redo_ocr |-> FALSE,
                          optimize_n |-> 2])
                 => r = <<"--rotate-pages", "--optimize", "2">>
           /\ cli_pc = "command" =>
                 cmd = <<"ocrmypdf">> \o r \o <<cli_files[1], cli_files[2]>>

(* A command was built for level 0 with some flags enabled. *)
C5_Witness ==
    /\ cli_pc = "command"
    /\ options.optimize_n = 0
    /\ options.rotate_pages
    /\ options.clean_option = CLEAN_FINAL
    /\ Len(cmd) = 7

-----------------------------------------------------------------------------
(* Properties of create_ocr_zip_buffer, under SpecZip. *)

(* C8: reading back the archive made from K results yields exactly K
   entries, in input order, the i-th with the i-th result's file_name and
   output_file_content; a repeated name makes two entries; K = 0 makes a
   valid archive without entries. *)
C8_ArchiveRoundTrip ==
    zip_pc = "read" =>
        /\ buffer.closed
        /\ Len(entries) = Len(ocr_results)
        /\ \A i \in 1..Len(ocr_results) :
              entries[i] = <<ocr_results[i].file_name, ocr_results[i].output_file_content>>

(* An archive was read back whose first two results share their name and
   differ in content. *)
C8_Witness ==
    /\ zip_pc = "read"
    /\ Len(ocr_results) >= 2
    /\ ocr_results[1].file_name = ocr_results[2].file_name
    /\ ocr_results[1].output_file_content # ocr_results[2].output_file_content
    /\ Len(entries) >= 2

-----------------------------------------------------------------------------
(* Properties of the image extraction, under SpecImg. *)

(* The documents whose rasterization succeeded. *)
Rasterized == {i \in 1..Len(attempts) : attempts[i].ok}

(* C9: once extract_images_from_multi_pdf has returned, every document of the
   batch was attempted, in order, and the result holds the page images of
   exactly the documents whose rasterization succeeded. *)
C9_ExtractionKeepsSucceeded ==
    img_pc # "extract" =>
        /\ Len(attempts) = Len(img_files)
        /\ UNION {Range(results[k][2]) : k \in 1..Len(results)}
              = UNION {Range(attempts[i].images) : i \in Rasterized}

RECURSIVE ExpectedEntries(_)
(* The archive members of the documents from the i-th on: for each rasterized
   document its pages in order, named {stem}.page_{n}.{format}. *)
ExpectedEntries(i) ==
    IF i > Len(img_files) THEN <<>>
    ELSE (IF attempts[i].ok
          THEN [n \in 1..Len(attempts[i].images) |->
                  [filename |-> stem(img_files[i])
                                \o <<".page_", str(n), ".", lower(image_format)>>,
                   data |-> Encoded(attempts[i].images[n], image_format, DefaultQuality)]]
          ELSE <<>>)
         \o ExpectedEntries(i + 1)

(* C10: the image archive holds exactly one entry per page of each
   rasterized document, named {stem}.page_{n}.{format} with n from 1 and
   holding that page's own image, pages in order within a document and
   documents in submission order, also when names or stems repeat. *)
C10_ImageArchiveEntries ==
    img_pc = "returned" => img_entries = ExpectedEntries(1)

=============================================================================
